---- MODULE Spec2Model ----
(***************************************************************************)
(* A model of the agentic review loop of reviewer.py (run_agentic_review,  *)
(* the tool dispatcher _execute_tool and the git / file helpers it calls)  *)
(* and of the entry point review_with_context of server.py.                *)
(*                                                                         *)
(* Texts are TLA+ strings built the way the code builds them.  A helper    *)
(* that can raise returns a record [exc, val, ops]: exc is the name of the *)
(* exception that escapes it ("" when it returns), val the returned value, *)
(* ops the subprocess invocations and file opens it performed, in order.   *)
(***************************************************************************)
EXTENDS Integers, Sequences, FiniteSets, TLC

(***************************************************************************)
(* Bounds of the model.                                                    *)
(***************************************************************************)
\* largest value of MAX_REVIEW_ITERATIONS explored
MaxCap == 2
\* most tool requests the remote model emits in one session
MaxToolCalls == 2
\* longest path list handed to get_scoped_diff on its own
MaxPaths == 3
\* most references in a modelled artifact
MaxRefs == 2
\* links in a document that only links files
MaxLinks == 7

(***************************************************************************)
(* Program constants.                                                      *)
(***************************************************************************)
\* read_files[:5]
LinkedFileLimit == 5

EXCLUDE_PATTERNS ==
    << "*.lock", "*.json", "*.svg", "*.png", "*.jpg", "*.woff", "*.woff2",
       "uv.lock", "package-lock.json", "yarn.lock", "pnpm-lock.yaml" >>

default_artifacts == << "implementation_plan.md", "task.md", "walkthrough.md" >>

\* the names declared to the remote model
REVIEWER_TOOLS == { "get_uncommitted_changes", "read_files", "list_changed_files" }

\* the keyword parameters of run_agentic_review
RunAgenticReviewParams ==
    { "diff_target", "context_files", "focus_files", "task_description" }

NoKeyError == "Error: ZHIPU_API_KEY environment variable is not set."
IterationExceeded == "Error: Maximum iterations reached without completing review."
NoReviewGenerated == "No review generated."
TransportErrorPrefix == "Error calling GLM-4.7 API: "
DiscoverMessage ==
    "Please review the current code changes. Use list_changed_files and get_uncommitted_changes to see what's been modified."

(***************************************************************************)
(* Small text helpers.                                                     *)
(***************************************************************************)
RECURSIVE Join(_, _)
\* sep.join(parts)
Join(parts, sep) ==
    IF parts = << >> THEN ""
    ELSE IF Len(parts) = 1 THEN parts[1]
    ELSE parts[1] \o sep \o Join(Tail(parts), sep)

RECURSIVE Concat(_)
\* the concatenation of a sequence of sequences
Concat(ss) == IF ss = << >> THEN << >> ELSE Head(ss) \o Concat(Tail(ss))

SeqsUpTo(S, n) == UNION { [1..k -> S] : k \in 0..n }

Range(s) == { s[i] : i \in 1..Len(s) }

Orderings(S) == { s \in [1..Cardinality(S) -> S] : Range(s) = S }

Min(a, b) == IF a < b THEN a ELSE b

(***************************************************************************)
(* The environment: the git working tree and the file system.              *)
(***************************************************************************)
\* paths a caller or the remote model names
Paths == { "a.py", "b.py" }
\* paths as parse_file_links yields them (normalize_file_uri_path)
LinkPaths == { "/a.py", "/b.py" }
AllPaths == Paths \cup LinkPaths
PathOrder == << "/a.py", "/b.py", "a.py", "b.py" >>

\* what `git diff -- <path>` does: prints a diff, prints nothing but white
\* space, or exits non-zero
DiffOutcomes == { "changes", "blank", "fail" }

DiffText(p) == "diff --git " \o p \o "\n"

\* A working tree is a record [installed, healthy, out]: is the git binary
\* there, do whole-tree commands exit 0, and the outcome of each per-path diff.

Stdout(wt, p) == IF wt.out[p] = "changes" THEN DiffText(p) ELSE "\n"
IsBlank(text) == text \in { "", "\n" }


\* a file: readable with its characters, absent, or present but unreadable
\* (permission denied, a directory, not UTF-8)
MissingFile == [ state |-> "missing", chars |-> << >> ]
FileAt(files, p) == IF p \in DOMAIN files THEN files[p] ELSE MissingFile

(***************************************************************************)
(* VersionControlAdapter: get_git_diff, get_changed_files, get_scoped_diff *)
(***************************************************************************)
RECURSIVE ExcludeArgs(_)
\* for pattern in EXCLUDE_PATTERNS: args.extend(["--", f":!{pattern}"])
ExcludeArgs(patterns) ==
    IF patterns = << >> THEN << >>
    ELSE << "--", ":!" \o Head(patterns) >> \o ExcludeArgs(Tail(patterns))

TargetArgs(target) ==
    IF target = "staged" THEN << "git", "diff", "--staged" >>
    ELSE IF target = "unstaged" THEN << "git", "diff" >>
    ELSE << "git", "diff", target >>

\* the whole-tree diff git prints: the diffs of the changed paths
TreeDiff(wt) ==
    Join([ i \in 1..Len(PathOrder) |->
             IF PathOrder[i] \in Paths /\ wt.out[PathOrder[i]] = "changes"
             THEN DiffText(PathOrder[i]) ELSE "" ], "")

get_git_diff(target, wt) ==
    LET args == TargetArgs(target) \o ExcludeArgs(EXCLUDE_PATTERNS) IN
    IF ~wt.installed
    THEN [ exc |-> "", val |-> "Error: git is not installed or not in PATH",
           ops |-> << args >> ]
    ELSE IF ~wt.healthy
    THEN [ exc |-> "", val |-> "Error running git diff: fatal: not a git repository\n",
           ops |-> << args >> ]
    ELSE [ exc |-> "", val |-> TreeDiff(wt), ops |-> << args >> ]

StagedNamesArgs == << "git", "diff", "--staged", "--name-only" >>
UnstagedNamesArgs == << "git", "diff", "--name-only" >>

\* the names `git diff --name-only` lists
ChangedNames(wt) == { p \in Paths : wt.out[p] = "changes" }

\* The outcomes of get_changed_files: the list is built from a Python set,
\* so its order is any order of the changed names.
get_changed_files(wt) ==
    IF ~wt.installed
    THEN { [ exc |-> "FileNotFoundError", val |-> << >>, ops |-> << StagedNamesArgs >> ] }
    ELSE IF ~wt.healthy
    THEN { [ exc |-> "", val |-> << >>, ops |-> << StagedNamesArgs >> ] }
    ELSE { [ exc |-> "", val |-> files, ops |-> << StagedNamesArgs, UnstagedNamesArgs >> ] :
             files \in Orderings(ChangedNames(wt)) }

\* Path(filepath).as_posix(): the modelled paths are in POSIX form already
AsPosix(filepath) == filepath

ScopedArgs(filepath, target) == TargetArgs(target) \o << "--", AsPosix(filepath) >>

\* an empty diff reported like a failed one
ScopedSectionNotingEmpty(filepath, target, wt) ==
    IF ~wt.installed
    THEN << "# Error getting diff for " \o filepath \o ": [Errno 2] No such file or directory: 'git'" >>
    ELSE IF wt.out[filepath] = "changes"
    THEN << "# Diff for: " \o filepath \o "\n" \o Stdout(wt, filepath) >>
    ELSE << "# No diff available for: " \o filepath >>

\* what one round of the loop of get_scoped_diff appends to diffs
ScopedSection(filepath, target, wt) ==
    IF ~wt.installed
    THEN << "# Error getting diff for " \o filepath \o ": [Errno 2] No such file or directory: 'git'" >>
    ELSE IF wt.out[filepath] = "fail"
    THEN << "# No diff available for: " \o filepath >>
    ELSE IF ~IsBlank(Stdout(wt, filepath))
    THEN << "# Diff for: " \o filepath \o "\n" \o Stdout(wt, filepath) >>
    ELSE << >>

\* return "\n\n".join(diffs)
ScopedResult(diffs, runs) ==
    [ exc |-> "", val |-> Join(diffs, "\n\n"), diffs |-> diffs, ops |-> runs ]

get_scoped_diff(files, target, wt) ==
    IF files = << >>
    THEN [ exc |-> "", val |-> "", diffs |-> << >>, ops |-> << >> ]
    ELSE ScopedResult(Concat([ i \in 1..Len(files) |-> ScopedSection(files[i], target, wt) ]),
                      [ i \in 1..Len(files) |-> ScopedArgs(files[i], target) ])

(***************************************************************************)
(* read_context_files                                                      *)
(***************************************************************************)
\* the ceiling of read_context_files
ReadCeiling == 50000
\* the ceiling of the linked files of an artifact
LinkCeiling == 10000

RECURSIVE TextRange(_, _, _)
\* the string of the characters lo..hi of a sequence, built by halves so
\* that long files do not nest deeply
TextRange(chars, lo, hi) ==
    IF lo > hi THEN ""
    ELSE IF lo = hi THEN chars[lo]
    ELSE TextRange(chars, lo, (lo + hi) \div 2) \o TextRange(chars, (lo + hi) \div 2 + 1, hi)

Text(chars) == TextRange(chars, 1, Len(chars))

\* the slice taken only when the length reaches the ceiling
TruncatedFromCeiling(chars, ceiling, marker) ==
    IF Len(chars) >= ceiling THEN Text(SubSeq(chars, 1, ceiling)) \o marker ELSE Text(chars)

\* if len(content) > ceiling: content = content[:ceiling] + marker
Truncated(chars, ceiling, marker) ==
    IF Len(chars) > ceiling THEN Text(SubSeq(chars, 1, ceiling)) \o marker ELSE Text(chars)

ReadOne(filepath, files) ==
    LET f == FileAt(files, filepath) IN
    IF f.state = "ok"
    THEN "\n\n--- FILE: " \o filepath \o " ---\n"
           \o Truncated(f.chars, ReadCeiling, "\n\n... [TRUNCATED] ...")
    ELSE IF f.state = "missing"
    THEN "\n\n(Note: Context file '" \o filepath \o "' not found)\n"
    ELSE "\n\n(Error reading '" \o filepath \o "': [Errno 13] Permission denied: '"
           \o filepath \o "')\n"

read_context_files(filepaths, files) ==
    [ exc |-> "",
      val |-> Join([ i \in 1..Len(filepaths) |-> ReadOne(filepaths[i], files) ], ""),
      ops |-> [ i \in 1..Len(filepaths) |-> << "open", filepaths[i] >> ] ]


(***************************************************************************)
(* LinkResolver: normalize_file_uri_path, parse_file_links                 *)
(***************************************************************************)
\* the paths written after file:/// in the modelled documents
UriPaths == { "a.py", "b.py", "a%2Epy" }

\* urllib.parse.unquote on the modelled paths
unquote(raw) == IF raw = "a%2Epy" THEN "a.py" ELSE raw

\* path[1] == ":" and path.startswith("/") on the modelled paths
HasDriveLetter(path) == path \in { "C:/a.py" }
StartsWithSlash(path) == path \in LinkPaths

normalize_file_uri_path(path) ==
    IF HasDriveLetter(path) THEN path
    ELSE IF ~StartsWithSlash(path) THEN "/" \o path
    ELSE path

\* A document is the sequence of its references, each a render_diffs(...)
\* directive or a markdown [text](file:///...) link.
Refs == [ kind : { "render_diffs", "link" }, uri : UriPaths ]

RefPath(ref) == normalize_file_uri_path(unquote(ref.uri))

RECURSIVE RefPaths(_)
RefPaths(refs) == IF refs = << >> THEN << >> ELSE << RefPath(Head(refs)) >> \o RefPaths(Tail(refs))

IsDirective(ref) == ref.kind = "render_diffs"
IsLink(ref) == ref.kind = "link"

\* parse_file_links: << diff_files, read_files >>
parse_file_links(content) ==
    LET diff_files == RefPaths(SelectSeq(content, IsDirective))
        NotDiffed(ref) == RefPath(ref) \notin Range(diff_files)
        read_files == RefPaths(SelectSeq(SelectSeq(content, IsLink), NotDiffed))
    IN << diff_files, read_files >>

(***************************************************************************)
(* ArtifactProcessor: process_artifact_with_links                          *)
(***************************************************************************)
\* the text of a reference as written in the document
RefText(ref) ==
    IF IsDirective(ref) THEN "render_diffs(file:///" \o ref.uri \o ")"
    ELSE "[link](file:///" \o ref.uri \o ")"

\* the Markdown code fence (three backquotes, which a TLA+ string cannot hold)
Fence == "~~~"

\* replace_render_diff
Replacement(full_path, file_diff) ==
    IF file_diff # "" THEN Fence \o "diff\n" \o file_diff \o "\n" \o Fence
    ELSE "(No changes in " \o full_path \o ")"

\* the inline diff produced with other rules than the aggregate: an empty
\* diff reported as not available
replace_render_diff_noting_empty(ref, diff_target, wt) ==
    Replacement(RefPath(ref),
                Join(ScopedSectionNotingEmpty(RefPath(ref), diff_target, wt), "\n\n"))

\* lines 246-253
replace_render_diff(ref, diff_target, wt) ==
    Replacement(RefPath(ref), get_scoped_diff(<< RefPath(ref) >>, diff_target, wt).val)

\* re.sub over the document: directives replaced, the rest kept
ProcessedParts(content, diff_target, wt) ==
    [ i \in 1..Len(content) |->
        IF IsDirective(content[i]) THEN replace_render_diff(content[i], diff_target, wt)
        ELSE RefText(content[i]) ]

Processed(content, diff_target, wt) == Join(ProcessedParts(content, diff_target, wt), "\n")

LinkedFile(read_path, files) ==
    LET f == FileAt(files, read_path) IN
    IF f.state = "ok"
    THEN "\n\n--- LINKED FILE: " \o read_path \o " ---\n"
           \o Truncated(f.chars, LinkCeiling, "\n... [TRUNCATED]")
    ELSE ""

\* every linked file read, without a limit
Unlimited(read_files) == read_files

\* for read_path in read_files[:5]
Limited(read_files) == SubSeq(read_files, 1, Min(Len(read_files), LinkedFileLimit))

LinkedContext(limited, files) ==
    Join([ i \in 1..Len(limited) |-> LinkedFile(limited[i], files) ], "")

ProcessedResult(filepath, processed, scoped, directives, limited, diff_target) ==
    [ exc |-> "",
      val |-> << processed, scoped.val >>,
      ops |-> << << "open", filepath >> >> \o scoped.ops
                \o [ i \in 1..Len(directives) |-> ScopedArgs(RefPath(directives[i]), diff_target) ]
                \o [ i \in 1..Len(limited) |-> << "open", limited[i] >> ] ]

\* lines 240-273: parsed is << diff_files, read_files >>
ProcessContent(filepath, content, parsed, diff_target, wt, files) ==
    ProcessedResult(filepath,
                    Processed(content, diff_target, wt) \o LinkedContext(Limited(parsed[2]), files),
                    get_scoped_diff(parsed[1], diff_target, wt),
                    SelectSeq(content, IsDirective),
                    Limited(parsed[2]),
                    diff_target)

\* val is << processed_content, scoped_diff >>
process_artifact_with_links(filepath, diff_target, wt, files, arts) ==
    LET art == FileAt(arts, filepath) IN
    IF art.state = "missing"
    THEN [ exc |-> "", val |-> << "(Artifact not found: " \o filepath \o ")", "" >>,
           ops |-> << << "open", filepath >> >> ]
    ELSE IF art.state = "denied"
    THEN [ exc |-> "PermissionError", val |-> << "", "" >>,
           ops |-> << << "open", filepath >> >> ]
    ELSE ProcessContent(filepath, art.chars, parse_file_links(art.chars), diff_target, wt, files)

(***************************************************************************)
(* ToolRegistry: json.loads of the arguments, _execute_tool                *)
(***************************************************************************)
\* the argument texts the modelled remote model sends
ArgumentTexts ==
    { "not json", "{}", "[]", "{\"paths\": [\"a.py\"]}", "{\"path\": \"b.py\"}",
      "{\"target\": \"unstaged\"}" }

\* json.loads on the modelled texts: a dict is a function from its keys
json_loads(text) ==
    IF text = "not json" THEN [ exc |-> "JSONDecodeError", isdict |-> FALSE, val |-> << >> ]
    ELSE IF text = "[]" THEN [ exc |-> "", isdict |-> FALSE, val |-> << >> ]
    ELSE IF text = "{\"paths\": [\"a.py\"]}"
    THEN [ exc |-> "", isdict |-> TRUE, val |-> [ k \in { "paths" } |-> << "a.py" >> ] ]
    ELSE IF text = "{\"path\": \"b.py\"}"
    THEN [ exc |-> "", isdict |-> TRUE, val |-> [ k \in { "path" } |-> "b.py" ] ]
    ELSE IF text = "{\"target\": \"unstaged\"}"
    THEN [ exc |-> "", isdict |-> TRUE, val |-> [ k \in { "target" } |-> "unstaged" ] ]
    ELSE [ exc |-> "", isdict |-> TRUE, val |-> << >> ]

\* try: json.loads(...) except json.JSONDecodeError: func_args = {}
FuncArgs(text) ==
    LET r == json_loads(text) IN
    IF r.exc = "JSONDecodeError" THEN [ isdict |-> TRUE, val |-> << >> ]
    ELSE [ isdict |-> r.isdict, val |-> r.val ]

\* arguments.get(key, default)
Get(arguments, key, default) ==
    IF key \in DOMAIN arguments.val THEN arguments.val[key] ELSE default

AttributeError == [ exc |-> "AttributeError", val |-> "", ops |-> << >> ]

\* a handler table without the else branch: handlers[name] raises
UnknownToolRaises(name) == { [ exc |-> "KeyError", val |-> "", ops |-> << >> ] }

\* lines 402-403: the else branch of _execute_tool
UnknownTool(name) == { [ exc |-> "", val |-> "Unknown tool: " \o name, ops |-> << >> ] }

\* The outcomes of _execute_tool(name, arguments).
execute_tool(name, arguments, wt, files) ==
    IF name = "get_uncommitted_changes"
    THEN IF ~arguments.isdict THEN { AttributeError }
         ELSE { get_git_diff(Get(arguments, "target", "staged"), wt) }
    ELSE IF name = "read_files"
    THEN IF ~arguments.isdict THEN { AttributeError }
         ELSE { read_context_files(Get(arguments, "paths", << >>), files) }
    ELSE IF name = "read_file"
    THEN IF ~arguments.isdict THEN { AttributeError }
         ELSE { read_context_files(<< Get(arguments, "path", "") >>, files) }
    ELSE IF name = "list_changed_files"
    THEN { [ exc |-> r.exc, ops |-> r.ops,
             val |-> IF r.val # << >> THEN Join(r.val, "\n") ELSE "No changed files found." ] :
             r \in get_changed_files(wt) }
    ELSE UnknownTool(name)


(***************************************************************************)
(* ReviewOrchestrator: the part of run_agentic_review before the loop      *)
(***************************************************************************)
\* an optional list: None, or the list wrapped in a one-element sequence
None == << >>
Some(list) == << list >>
\* Python truthiness of an optional list: neither None nor []
Truthy(opt) == opt # None /\ opt[1] # << >>
OrEmpty(opt) == IF opt = None THEN << >> ELSE opt[1]

\* one round of the artifact loop: what it adds to artifact_context, to
\* all_diff_files and to the operations performed
Loaded(artifact, content, processed) ==
    [ context |-> IF processed.exc = ""
                  THEN "\n\n--- ARTIFACT: " \o artifact \o " ---\n" \o processed.val[1]
                  ELSE "",
      diff_files |-> parse_file_links(content)[1],
      ops |-> << << "open", artifact >> >> \o processed.ops ]

LoadArtifact(artifact, diff_target, wt, files) ==
    IF FileAt(files, artifact).state # "ok"
    THEN [ context |-> "", diff_files |-> << >>, ops |-> << << "open", artifact >> >> ]
    ELSE Loaded(artifact, FileAt(files, artifact).chars,
                process_artifact_with_links(artifact, diff_target, wt, files, files))

Accumulate(first, rest) ==
    [ context |-> first.context \o rest.context,
      diff_files |-> first.diff_files \o rest.diff_files,
      ops |-> first.ops \o rest.ops ]

RECURSIVE LoadArtifacts(_, _, _, _)
\* for artifact in artifacts_to_read
LoadArtifacts(artifacts_to_read, diff_target, wt, files) ==
    IF artifacts_to_read = << >>
    THEN [ context |-> "", diff_files |-> << >>, ops |-> << >> ]
    ELSE Accumulate(LoadArtifact(Head(artifacts_to_read), diff_target, wt, files),
                    LoadArtifacts(Tail(artifacts_to_read), diff_target, wt, files))

\* the two branches swapped: files from artifacts > focus_files > none
SelectFilesArtifactsFirst(focus_files, all_diff_files) ==
    IF all_diff_files # << >> THEN Some(all_diff_files)
    ELSE IF Truthy(focus_files) THEN focus_files
    ELSE None

\* Priority: focus_files > files from artifacts > none
SelectFiles(focus_files, all_diff_files) ==
    IF Truthy(focus_files) THEN focus_files
    ELSE IF all_diff_files # << >> THEN Some(all_diff_files)
    ELSE None

\* lines 513-525: the sections of the initial user message
Sections(task_description, artifact_context, changed_files, diff_content, diff_target) ==
       (IF task_description # "" THEN << "## Task Description\n" \o task_description >>
        ELSE << >>)
    \o (IF artifact_context # "" THEN << "## Project Artifacts\n" \o artifact_context >>
        ELSE << >>)
    \o (IF changed_files # << >>
        THEN << "## Files to Review\n" \o Join(changed_files, "\n") >> ELSE << >>)
    \o (IF diff_content # ""
        THEN << "## Git Diff (" \o diff_target \o ")\n" \o Fence \o "diff\n"
                  \o diff_content \o "\n" \o Fence >>
        ELSE << >>)

\* lines 527-531
Composed(sections) ==
    IF sections # << >>
    THEN "Please review the following:\n\n" \o Join(sections, "\n\n")
           \o "\n\n---\nProvide a thorough code review. Use your tools if you need more information."
    ELSE DiscoverMessage

\* the discover instruction whenever no file is selected
DiscoverWithoutFiles(task_description, artifact_context, changed_files, diff_content, diff_target) ==
    IF changed_files = << >> THEN DiscoverMessage
    ELSE Composed(Sections(task_description, artifact_context, changed_files, diff_content,
                           diff_target))

\* the initial user message
UserMessage(task_description, artifact_context, changed_files, diff_content, diff_target) ==
    Composed(Sections(task_description, artifact_context, changed_files, diff_content,
                      diff_target))

Message(role, content, tool_calls, tool_call_id) ==
    [ role |-> role, content |-> content, tool_calls |-> tool_calls,
      tool_call_id |-> tool_call_id ]

\* lines 486-492: the pre-fetched diff
Prefetch(files_to_diff, diff_target, wt) ==
    IF Truthy(files_to_diff) THEN get_scoped_diff(files_to_diff[1], diff_target, wt)
    ELSE [ exc |-> "", val |-> "", diffs |-> << >>, ops |-> << >> ]

ChangedFiles(files_to_diff) == IF Truthy(files_to_diff) THEN files_to_diff[1] ELSE << >>

SystemPrompt == "You are a Senior Code Reviewer with access to tools."

(***************************************************************************)
(* The state of one review session.                                        *)
(***************************************************************************)
VARIABLES
    caller,      \* who invokes the session: "review_with_context" or "direct"
    pc,          \* "call", "entered", "await", "inflight", "dispatch",
                 \* "returned" or "raised"
    args,        \* diff_target, context_files, focus_files, task_description
    env,         \* api_key, max_iterations, wt (git), files (file system)
    prep,        \* the locals computed before the loop
    messages,    \* the transcript
    iteration,   \* rounds of the loop completed
    pending,     \* tool calls of the current response not yet dispatched
    response,    \* the last answer of the chat endpoint
    result,      \* the value returned
    exc,         \* the exception that escaped, "" when none
    ops,         \* subprocess runs and file opens so far: [src, cmd]
    chatCalls,   \* chat-completion calls issued
    inflight,    \* chat-completion calls issued and not yet answered
    toolBudget,  \* tool requests the remote model may still emit
    dq,          \* a helper called on its own: its arguments
    dr,          \* and its result
    sid,         \* the session the worker shown above is running: 1 or 2
    parked       \* the locals of the session on the other worker, if any

vars == << caller, pc, args, env, prep, messages, iteration, pending, response,
           result, exc, ops, chatCalls, inflight, toolBudget, dq, dr, sid, parked >>

session == << caller, pc, args, env, prep, messages, iteration, pending, response,
              result, exc, ops, chatCalls, inflight, toolBudget >>

\* no second session
NoSession == [ pc |-> "none" ]

NoPrep ==
    [ artifact_context |-> "", all_diff_files |-> << >>, files_to_diff |-> None,
      changed_files |-> << >>, diff_content |-> "", diff_ops |-> << >> ]

NoResponse == [ kind |-> "none", content |-> "", tool_calls |-> << >> ]

NoScopedCall == [ files |-> << >>, target |-> "staged", wt |-> [ installed |-> TRUE,
                  healthy |-> TRUE, out |-> [ p \in AllPaths |-> "blank" ] ] ]
NoScopedResult == [ done |-> FALSE, val |-> "", diffs |-> << >>, ops |-> << >> ]

(***************************************************************************)
(* The inputs explored.                                                    *)
(***************************************************************************)
Tree(installed, healthy, a, b, la, lb) ==
    [ installed |-> installed, healthy |-> healthy,
      out |-> [ p \in AllPaths |-> IF p = "a.py" THEN a ELSE IF p = "b.py" THEN b
                                   ELSE IF p = "/a.py" THEN la ELSE lb ] ]

\* git present with changes, git absent, git exiting non-zero
SessionTrees ==
    { Tree(TRUE, TRUE, "changes", "changes", "changes", "blank"),
      Tree(FALSE, TRUE, "changes", "changes", "changes", "blank"),
      Tree(TRUE, FALSE, "fail", "fail", "fail", "fail") }

File(chars) == [ state |-> "ok", chars |-> chars ]
Denied == [ state |-> "denied", chars |-> << >> ]

Directive(uri) == [ kind |-> "render_diffs", uri |-> uri ]
Link(uri) == [ kind |-> "link", uri |-> uri ]

\* the files other than the artifacts: a.py readable, b.py absent
SourceFiles(doc) ==
    [ p \in { "a.py", "/a.py", "/b.py", "task.md" } |->
        IF p = "a.py" THEN File(<< "x", "=", "1" >>)
        ELSE IF p = "/a.py" THEN File(<< "x", "=", "1" >>)
        ELSE IF p = "/b.py" THEN Denied
        ELSE doc ]

\* task.md: absent, unreadable, or a document
SessionDocs ==
    { MissingFile, File(<< Directive("b.py"), Link("a.py") >>) }

SelectDocs ==
    { MissingFile, Denied } \cup { File(refs) : refs \in SeqsUpTo(Refs, MaxRefs) }

FocusLists == { None, Some(<< >>), Some(<< "a.py" >>), Some(<< "a.py", "b.py" >>) }

CallIds == { "call_1", "call_2" }

\* the tool requests the modelled remote model can make
ToolRequests ==
    { [ name |-> "get_uncommitted_changes", arguments |-> "not json" ],
      [ name |-> "read_files", arguments |-> "{\"paths\": [\"a.py\"]}" ],
      [ name |-> "read_files", arguments |-> "[]" ],
      [ name |-> "list_changed_files", arguments |-> "{}" ],
      [ name |-> "read_file", arguments |-> "{\"path\": \"b.py\"}" ],
      [ name |-> "delete_files", arguments |-> "{}" ] }

ToolCalls ==
    { [ id |-> id, name |-> r.name, arguments |-> r.arguments ] :
        id \in CallIds, r \in ToolRequests }

\* the texts of a final answer; "" also stands for a missing content
FinalTexts == { "", "LGTM" }

InitSession(callers, keys, caps, trees, docs, contexts, focus, tasks, budget) ==
    /\ caller \in callers
    /\ pc = "call"
    /\ args \in [ diff_target : { "staged" }, context_files : contexts,
                  focus_files : focus, task_description : tasks ]
    /\ \E k \in keys, c \in caps, wt \in trees, doc \in docs :
         env = [ api_key |-> k, max_iterations |-> c, wt |-> wt, files |-> SourceFiles(doc) ]
    /\ prep = NoPrep
    /\ messages = << >>
    /\ iteration = 0
    /\ pending = << >>
    /\ response = NoResponse
    /\ result = ""
    /\ exc = ""
    /\ ops = << >>
    /\ chatCalls = 0
    /\ inflight = 0
    /\ toolBudget = budget
    /\ dq = NoScopedCall
    /\ dr = NoScopedResult

\* one session, on one worker
Alone == sid = 1 /\ parked = NoSession

\* sessions that exercise the loop
Init ==
    /\ InitSession({ "review_with_context", "direct" }, BOOLEAN, 0..MaxCap, SessionTrees,
                   SessionDocs, { None }, { None, Some(<< "a.py" >>) }, { "" }, MaxToolCalls)
    /\ Alone


(***************************************************************************)
(* server.py: review_with_context                                          *)
(***************************************************************************)
\* the keyword arguments review_with_context passes to run_agentic_review
ServerKeywords ==
    { "working_dir", "diff_target", "context_files", "focus_files", "task_description" }

\* Python binds the keywords to the parameters; a keyword that is no
\* parameter is a TypeError raised before the body runs
BindKeywords(keywords, params) == IF keywords \subseteq params THEN "" ELSE "TypeError"

review_with_context ==
    /\ pc = "call"
    /\ caller = "review_with_context"
    /\ LET bound == BindKeywords(ServerKeywords, RunAgenticReviewParams) IN
         /\ pc' = IF bound = "" THEN "entered" ELSE "raised"
         /\ exc' = bound
    /\ UNCHANGED << caller, args, env, prep, messages, iteration, pending, response,
                    result, ops, chatCalls, inflight, toolBudget, dq, dr, sid, parked >>

\* run_agentic_review called with its own parameters
DirectCall ==
    /\ pc = "call"
    /\ caller = "direct"
    /\ pc' = "entered"
    /\ UNCHANGED << caller, args, env, prep, messages, iteration, pending, response,
                    result, exc, ops, chatCalls, inflight, toolBudget, dq, dr, sid, parked >>

(***************************************************************************)
(* reviewer.py: run_agentic_review                                         *)
(***************************************************************************)
Op(src, cmds) == [ i \in 1..Len(cmds) |-> [ src |-> src, cmd |-> cmds[i] ] ]

\* the credential checked only after the artifacts were loaded
MissingKeyAfterArtifacts ==
    /\ pc = "entered"
    /\ ~env.api_key
    /\ pc' = "returned"
    /\ result' = NoKeyError
    /\ \E loaded \in { LoadArtifacts(default_artifacts \o OrEmpty(args.context_files),
                                      args.diff_target, env.wt, env.files) } :
         ops' = ops \o Op("prepare", loaded.ops)
    /\ UNCHANGED << caller, args, env, prep, messages, iteration, pending, response,
                    exc, chatCalls, inflight, toolBudget, dq, dr, sid, parked >>

\* lines 426-428: the credential check
MissingKey ==
    /\ pc = "entered"
    /\ ~env.api_key
    /\ pc' = "returned"
    /\ result' = NoKeyError
    /\ UNCHANGED << caller, args, env, prep, messages, iteration, pending, response,
                    exc, ops, chatCalls, inflight, toolBudget, dq, dr, sid, parked >>

\* lines 430-543: artifacts, file selection, pre-fetched diff, first messages
BuildPrompt ==
    /\ pc = "entered"
    /\ env.api_key
    /\ \E loaded \in { LoadArtifacts(default_artifacts \o OrEmpty(args.context_files),
                                      args.diff_target, env.wt, env.files) } :
       \E files_to_diff \in { SelectFiles(args.focus_files, loaded.diff_files) } :
       \E scoped \in { Prefetch(files_to_diff, args.diff_target, env.wt) } :
         /\ prep' = [ artifact_context |-> loaded.context,
                      all_diff_files |-> loaded.diff_files, files_to_diff |-> files_to_diff,
                      changed_files |-> ChangedFiles(files_to_diff),
                      diff_content |-> scoped.val, diff_ops |-> scoped.ops ]
         /\ messages' =
              << Message("system", SystemPrompt, << >>, ""),
                 Message("user", UserMessage(args.task_description, loaded.context,
                                             ChangedFiles(files_to_diff), scoped.val,
                                             args.diff_target), << >>, "") >>
         /\ ops' = ops \o Op("prepare", loaded.ops \o scoped.ops)
    /\ iteration' = 0
    /\ pc' = "await"
    /\ UNCHANGED << caller, args, env, pending, response, result, exc, chatCalls,
                    inflight, toolBudget, dq, dr, sid, parked >>

\* line 545 with the range exhausted, line 590
LoopExit ==
    /\ pc = "await"
    /\ iteration >= env.max_iterations
    /\ pc' = "returned"
    /\ result' = IterationExceeded
    /\ UNCHANGED << caller, args, env, prep, messages, iteration, pending, response,
                    exc, ops, chatCalls, inflight, toolBudget, dq, dr, sid, parked >>

\* lines 545-554: client.chat.completions.create is called
SendRequest ==
    /\ pc = "await"
    /\ iteration < env.max_iterations
    /\ pc' = "inflight"
    /\ chatCalls' = chatCalls + 1
    /\ inflight' = inflight + 1
    /\ UNCHANGED << caller, args, env, prep, messages, iteration, pending, response,
                    result, exc, ops, toolBudget, dq, dr, sid, parked >>

\* lines 555-556: the call raises (network, authentication, undecodable body)
TransportFailure ==
    /\ pc = "inflight"
    /\ inflight' = inflight - 1
    /\ response' = [ kind |-> "error", content |-> "Connection error.", tool_calls |-> << >> ]
    /\ pc' = "returned"
    /\ result' = TransportErrorPrefix \o "Connection error."
    /\ UNCHANGED << caller, args, env, prep, messages, iteration, pending, exc, ops,
                    chatCalls, toolBudget, dq, dr, sid, parked >>

\* line 558: the call returns a body without choices; response.choices[0] is
\* evaluated outside the try
MalformedResponse ==
    /\ pc = "inflight"
    /\ inflight' = inflight - 1
    /\ response' = [ kind |-> "nochoices", content |-> "", tool_calls |-> << >> ]
    /\ pc' = "raised"
    /\ exc' = "IndexError"
    /\ UNCHANGED << caller, args, env, prep, messages, iteration, pending, result, ops,
                    chatCalls, toolBudget, dq, dr, sid, parked >>

\* the fallback dropped: return message.content
FinalResultNoFallback(content) == content

\* message.content or "No review generated."
FinalResult(content) == IF content # "" THEN content ELSE NoReviewGenerated

\* lines 561-563: a response without tool calls
FinalAnswer ==
    /\ pc = "inflight"
    /\ inflight' = inflight - 1
    /\ \E content \in FinalTexts :
         /\ response' = [ kind |-> "final", content |-> content, tool_calls |-> << >> ]
         /\ result' = FinalResult(content)
    /\ pc' = "returned"
    /\ UNCHANGED << caller, args, env, prep, messages, iteration, pending, exc, ops,
                    chatCalls, toolBudget, dq, dr, sid, parked >>

\* lines 565-567: a response with tool calls; the assistant message is appended
ToolRequest ==
    /\ pc = "inflight"
    /\ inflight' = inflight - 1
    /\ \E k \in 1..toolBudget : \E calls \in [1..k -> ToolCalls] :
         /\ response' = [ kind |-> "tools", content |-> "", tool_calls |-> calls ]
         /\ messages' = Append(messages, Message("assistant", "", calls, ""))
         /\ pending' = calls
         /\ toolBudget' = toolBudget - k
    /\ pc' = "dispatch"
    /\ UNCHANGED << caller, args, env, prep, iteration, result, exc, ops, chatCalls, dq, dr, sid, parked >>

\* the result tagged with the function name instead of the call's id
ToolMessageByName(tool_call, content) == Message("tool", content, << >>, tool_call.name)

\* lines 582-588: the message appended for a tool call
ToolMessage(tool_call, content) == Message("tool", content, << >>, tool_call.id)

\* lines 569-588: one round of the loop over message.tool_calls
DispatchTool ==
    /\ pc = "dispatch"
    /\ pending # << >>
    /\ LET tool_call == Head(pending)
           func_args == FuncArgs(tool_call.arguments)
       IN \E r \in execute_tool(tool_call.name, func_args, env.wt, env.files) :
            /\ ops' = ops \o Op(tool_call.name, r.ops)
            /\ IF r.exc # ""
               THEN /\ pc' = "raised"
                    /\ exc' = r.exc
                    /\ UNCHANGED << messages, pending, iteration >>
               ELSE /\ messages' = Append(messages, ToolMessage(tool_call, r.val))
                    /\ pending' = Tail(pending)
                    /\ pc' = IF Tail(pending) = << >> THEN "await" ELSE "dispatch"
                    /\ iteration' = IF Tail(pending) = << >> THEN iteration + 1 ELSE iteration
                    /\ exc' = exc
    /\ UNCHANGED << caller, args, env, prep, response, result, chatCalls, inflight,
                    toolBudget, dq, dr, sid, parked >>

Next ==
    \/ review_with_context
    \/ DirectCall
    \/ MissingKey
    \/ BuildPrompt
    \/ LoopExit
    \/ SendRequest
    \/ TransportFailure
    \/ MalformedResponse
    \/ FinalAnswer
    \/ ToolRequest
    \/ DispatchTool

Spec == Init /\ [][Next]_vars


(***************************************************************************)
(* Sessions that exercise the file selection: every focus list against     *)
(* every small task.md, with a remote model that asks for one tool at most *)
(***************************************************************************)
InitSelect ==
    /\ InitSession({ "review_with_context", "direct" }, BOOLEAN, { 1 }, SessionTrees,
                   SelectDocs, { None, Some(<< "task.md" >>) }, FocusLists,
                   { "", "Fix the parser" }, 1)
    /\ Alone

SpecSelect == InitSelect /\ [][Next]_vars

(***************************************************************************)
(* get_scoped_diff called on its own, on every short path list and every   *)
(* working tree                                                            *)
(***************************************************************************)
DiffTargets == { "staged", "unstaged", "HEAD~1" }

InitDiff ==
    /\ caller = "direct"
    /\ pc = "call"
    /\ args = [ diff_target |-> "staged", context_files |-> None, focus_files |-> None,
                task_description |-> "" ]
    /\ env = [ api_key |-> TRUE, max_iterations |-> 0,
               wt |-> Tree(TRUE, TRUE, "blank", "blank", "blank", "blank"),
               files |-> SourceFiles(MissingFile) ]
    /\ prep = NoPrep
    /\ messages = << >>
    /\ iteration = 0
    /\ pending = << >>
    /\ response = NoResponse
    /\ result = ""
    /\ exc = ""
    /\ ops = << >>
    /\ chatCalls = 0
    /\ inflight = 0
    /\ toolBudget = 0
    /\ \E files \in SeqsUpTo(Paths, MaxPaths), target \in DiffTargets,
          installed \in BOOLEAN, a \in DiffOutcomes, b \in DiffOutcomes :
         dq = [ files |-> files, target |-> target,
                wt |-> Tree(installed, TRUE, a, b, "blank", "blank") ]
    /\ dr = NoScopedResult
    /\ Alone

ScopedDiffCall ==
    /\ ~dr.done
    /\ LET r == get_scoped_diff(dq.files, dq.target, dq.wt) IN
         dr' = [ done |-> TRUE, val |-> r.val, diffs |-> r.diffs, ops |-> r.ops ]
    /\ UNCHANGED << session, dq, sid, parked >>

NextDiff == ScopedDiffCall

SpecDiff == InitDiff /\ [][NextDiff]_vars


(***************************************************************************)
(* parse_file_links and process_artifact_with_links called on their own,   *)
(* on every small task.md (absent, unreadable or a document), with git     *)
(* present or absent and every outcome of the per-path diffs               *)
(***************************************************************************)
IdleSession ==
    /\ caller = "direct"
    /\ pc = "call"
    /\ args = [ diff_target |-> "staged", context_files |-> None, focus_files |-> None,
                task_description |-> "" ]
    /\ env = [ api_key |-> TRUE, max_iterations |-> 0,
               wt |-> Tree(TRUE, TRUE, "blank", "blank", "blank", "blank"),
               files |-> SourceFiles(MissingFile) ]
    /\ prep = NoPrep
    /\ messages = << >>
    /\ iteration = 0
    /\ pending = << >>
    /\ response = NoResponse
    /\ result = ""
    /\ exc = ""
    /\ ops = << >>
    /\ chatCalls = 0
    /\ inflight = 0
    /\ toolBudget = 0
    /\ Alone

NoHelperResult ==
    [ done |-> FALSE, fn |-> "", exc |-> "", val |-> << >>, ops |-> << >>,
      parts |-> << >>, diffs |-> << >> ]

InitArtifact ==
    /\ IdleSession
    /\ \E doc \in SelectDocs, installed \in BOOLEAN, la \in DiffOutcomes, lb \in DiffOutcomes :
         dq = [ filepath |-> "task.md", target |-> "staged",
                wt |-> Tree(installed, TRUE, "blank", "blank", la, lb),
                fs |-> SourceFiles(doc) ]
    /\ dr = NoHelperResult

\* diff_files, read_files = parse_file_links(content)
ParseLinksCall ==
    /\ ~dr.done
    /\ FileAt(dq.fs, dq.filepath).state = "ok"
    /\ dr' = [ NoHelperResult EXCEPT !.done = TRUE, !.fn = "parse_file_links",
                 !.val = parse_file_links(FileAt(dq.fs, dq.filepath).chars) ]
    /\ UNCHANGED << session, dq, sid, parked >>

\* processed_content, scoped_diff = process_artifact_with_links(filepath, diff_target);
\* parts are the pieces re.sub leaves of the document, diffs the sections of
\* the aggregate scoped diff
ProcessArtifactCall ==
    /\ ~dr.done
    /\ \E art \in { FileAt(dq.fs, dq.filepath) } :
       \E r \in { process_artifact_with_links(dq.filepath, dq.target, dq.wt, dq.fs, dq.fs) } :
         dr' = [ done |-> TRUE, fn |-> "process_artifact_with_links",
                 exc |-> r.exc, val |-> r.val, ops |-> r.ops,
                 parts |-> IF art.state = "ok"
                           THEN ProcessedParts(art.chars, dq.target, dq.wt) ELSE << >>,
                 diffs |-> IF art.state = "ok"
                           THEN get_scoped_diff(parse_file_links(art.chars)[1],
                                                dq.target, dq.wt).diffs
                           ELSE << >> ]
    /\ UNCHANGED << session, dq, sid, parked >>

NextArtifact ==
    \/ ParseLinksCall
    \/ ProcessArtifactCall

SpecArtifact == InitArtifact /\ [][NextArtifact]_vars


(***************************************************************************)
(* Two sessions on two workers (server.py runs each call of the tool in a  *)
(* thread of its own).  The session variables show the worker that takes   *)
(* the next step; Switch hands the turn to the other worker.  What a       *)
(* session keeps between its steps is its locals; env (the environment     *)
(* variables, the working tree, the files) belongs to the process and is   *)
(* the same for both.                                                      *)
(***************************************************************************)
\* the parameters and locals of the call of run_agentic_review being shown
Locals ==
    [ caller |-> caller, pc |-> pc, args |-> args, prep |-> prep, messages |-> messages,
      iteration |-> iteration, pending |-> pending, response |-> response,
      result |-> result, exc |-> exc, ops |-> ops, chatCalls |-> chatCalls,
      inflight |-> inflight, toolBudget |-> toolBudget ]

NewSession(c, a, budget) ==
    [ caller |-> c, pc |-> "call", args |-> a, prep |-> NoPrep, messages |-> << >>,
      iteration |-> 0, pending |-> << >>, response |-> NoResponse, result |-> "",
      exc |-> "", ops |-> << >>, chatCalls |-> 0, inflight |-> 0, toolBudget |-> budget ]

\* the tree and task.md of the paired sessions
PairTree == Tree(TRUE, TRUE, "changes", "changes", "changes", "blank")
PairDoc == File(<< Directive("b.py"), Link("a.py") >>)

InitPair ==
    /\ InitSession({ "review_with_context", "direct" }, BOOLEAN, { 1 }, { PairTree },
                   { PairDoc }, { None }, { None }, { "Fix the parser" }, 1)
    /\ sid = 1
    /\ \E c \in { "review_with_context", "direct" } :
         parked = NewSession(c, [ diff_target |-> "staged", context_files |-> None,
                                  focus_files |-> Some(<< "a.py" >>),
                                  task_description |-> "Rename the module" ], 1)

\* messages bound at module level, so that every call uses the one list
SharedTranscript(own, current) == current

\* lines 533-536: messages is a local of the call, a list created by it;
\* the worker that resumes finds its own list
ResumedTranscript(own, current) == own

\* the other worker takes the next step
Switch ==
    /\ parked # NoSession
    /\ sid' = 3 - sid
    /\ parked' = Locals
    /\ caller' = parked.caller
    /\ pc' = parked.pc
    /\ args' = parked.args
    /\ prep' = parked.prep
    /\ messages' = ResumedTranscript(parked.messages, messages)
    /\ iteration' = parked.iteration
    /\ pending' = parked.pending
    /\ response' = parked.response
    /\ result' = parked.result
    /\ exc' = parked.exc
    /\ ops' = parked.ops
    /\ chatCalls' = parked.chatCalls
    /\ inflight' = parked.inflight
    /\ toolBudget' = parked.toolBudget
    /\ UNCHANGED << env, dq, dr >>

NextPair ==
    \/ review_with_context
    \/ DirectCall
    \/ MissingKey
    \/ BuildPrompt
    \/ LoopExit
    \/ SendRequest
    \/ TransportFailure
    \/ MalformedResponse
    \/ FinalAnswer
    \/ ToolRequest
    \/ DispatchTool
    \/ Switch

SpecPair == InitPair /\ [][NextPair]_vars


(***************************************************************************)
(* read_context_files called on its own, on files shorter than, as long as *)
(* and longer than its ceiling                                             *)
(***************************************************************************)
\* the lengths of the files read: empty, short, around the ceiling, and the
\* 60,000 characters of the specification's example
ReadSizes == { 0, 3, ReadCeiling - 1, ReadCeiling, ReadCeiling + 1, 60000 }

\* a file of n characters: "A", then "x" up to the ceiling, then "Z"
\* (SubSeq makes the characters a tuple computed once)
Content(n) ==
    SubSeq([ i \in 1..n |-> IF i = 1 THEN "A" ELSE IF i <= ReadCeiling THEN "x" ELSE "Z" ], 1, n)

Sized(n) == [ state |-> "ok", size |-> n ]
Unsized(state) == [ state |-> state, size |-> 0 ]

\* the file system described by the sizes
FilesOfSizes(sizes) ==
    [ p \in DOMAIN sizes |->
        IF sizes[p].state = "ok" THEN File(Content(sizes[p].size))
        ELSE [ state |-> sizes[p].state, chars |-> << >> ] ]

InitRead ==
    /\ IdleSession
    /\ \E filepaths \in SeqsUpTo(Paths, 2),
          a \in { Unsized("missing"), Unsized("denied") } \cup { Sized(n) : n \in ReadSizes },
          b \in { Unsized("missing"), Unsized("denied"), Sized(3) } :
         dq = [ filepaths |-> filepaths, sizes |-> [ p \in Paths |-> IF p = "a.py" THEN a ELSE b ] ]
    /\ dr = NoHelperResult

ReadFilesCall ==
    /\ ~dr.done
    /\ \E r \in { read_context_files(dq.filepaths, FilesOfSizes(dq.sizes)) } :
         dr' = [ NoHelperResult EXCEPT !.done = TRUE, !.fn = "read_context_files",
                   !.exc = r.exc, !.val = r.val, !.ops = r.ops ]
    /\ UNCHANGED << session, dq, sid, parked >>

NextRead == ReadFilesCall

SpecRead == InitRead /\ [][NextRead]_vars


(***************************************************************************)
(* process_artifact_with_links on documents that link up to MaxLinks       *)
(* different files, each of them readable or not                           *)
(***************************************************************************)
\* the k-th linked file
LinkedName(k) ==
    IF k = 1 THEN "f1.py" ELSE IF k = 2 THEN "f2.py" ELSE IF k = 3 THEN "f3.py"
    ELSE IF k = 4 THEN "f4.py" ELSE IF k = 5 THEN "f5.py" ELSE IF k = 6 THEN "f6.py"
    ELSE IF k = 7 THEN "f7.py" ELSE IF k = 8 THEN "f8.py" ELSE "f9.py"

\* a document of n links, in ascending or descending order of the names
LinkDoc(n, ascending) ==
    [ i \in 1..n |-> Link(LinkedName(IF ascending THEN i ELSE n + 1 - i)) ]

\* the files: task.md and the linked files, those in readable with a line
\* of text, the others unreadable (odd ones) or absent (even ones)
LinkedFiles(doc, n, readable) ==
    [ p \in { "task.md" } \cup { "/" \o LinkedName(k) : k \in 1..n } |->
        IF p = "task.md" THEN File(doc)
        ELSE IF \E k \in readable : p = "/" \o LinkedName(k) THEN File(<< "x", "=", "1" >>)
        ELSE IF \E k \in 1..n : k % 2 = 1 /\ p = "/" \o LinkedName(k) THEN Denied
        ELSE MissingFile ]

InitLinked ==
    /\ IdleSession
    /\ \E n \in 0..MaxLinks, ascending \in BOOLEAN :
       \E readable \in SUBSET (1..n) :
         dq = [ filepath |-> "task.md", target |-> "staged",
                wt |-> Tree(TRUE, TRUE, "blank", "blank", "blank", "blank"),
                fs |-> LinkedFiles(LinkDoc(n, ascending), n, readable) ]
    /\ dr = NoHelperResult

NextLinked == ProcessArtifactCall

SpecLinked == InitLinked /\ [][NextLinked]_vars


(***************************************************************************)
(* Reading the transcript.                                                 *)
(***************************************************************************)
Assistants == { i \in DOMAIN messages : messages[i].role = "assistant" }
ToolResults == { i \in DOMAIN messages : messages[i].role = "tool" }

LoopStarted == messages # << >>
Finished == pc \in { "returned", "raised" }

\* every chat-completion call so far was answered with tool requests
EveryCallAskedTools == inflight = 0 /\ Cardinality(Assistants) = chatCalls

\* operations performed by dispatched tools
ToolOps == { i \in DOMAIN ops : ops[i].src # "prepare" }

(***************************************************************************)
(* C1                                                                      *)
(***************************************************************************)
\* C1: a session whose every chat-completion call was answered with tool
\* requests ends by returning the IterationExceeded text after exactly
\* max_iterations calls, and no session makes more than max_iterations calls.
C1_ToolsEveryRoundEndAtCap ==
    /\ chatCalls <= env.max_iterations
    /\ (LoopStarted /\ Finished /\ EveryCallAskedTools)
         => (pc = "returned" /\ result = IterationExceeded /\ chatCalls = env.max_iterations)

(***************************************************************************)
(* C2                                                                      *)
(***************************************************************************)
\* the first response has arrived and carries no tool requests
FirstResponseFinal == response.kind = "final" /\ chatCalls = 1

\* C2 as claimed: when the first response carries no tool requests the
\* session has returned after that one call without dispatching a tool, and
\* the value returned is the response's text verbatim, whatever the text.
C2_FirstAnswerVerbatim ==
    FirstResponseFinal =>
        /\ pc = "returned"
        /\ ToolResults = { } /\ ToolOps = { }
        /\ result = response.content

\* C2 as amended: as above, but the value returned is the response's text
\* only when the text is not empty; an empty or missing text is returned as
\* the fixed text "No review generated.".
C2_FirstAnswerReturned ==
    FirstResponseFinal =>
        /\ pc = "returned"
        /\ inflight = 0
        /\ Len(messages) = 2
        /\ ToolResults = { } /\ ToolOps = { }
        /\ response.content # "" => result = response.content
        /\ response.content = "" => result = NoReviewGenerated

C2_Witness ==
    /\ FirstResponseFinal
    /\ pc = "returned"
    /\ response.content = "LGTM"
    /\ result = "LGTM"


(***************************************************************************)
(* C3                                                                      *)
(***************************************************************************)
\* the paths the render_diffs directives of a readable artifact name
DirectivesOf(artifact) ==
    IF FileAt(env.files, artifact).state = "ok"
    THEN RefPaths(SelectSeq(FileAt(env.files, artifact).chars, IsDirective))
    ELSE << >>

\* the diff-directive files found in the artifacts, in reading order
ArtifactList ==
    Concat([ i \in 1..Len(default_artifacts \o OrEmpty(args.context_files)) |->
               DirectivesOf((default_artifacts \o OrEmpty(args.context_files))[i]) ])

\* the paths of the git queries made for the pre-computed diff
QueriedPaths == [ i \in 1..Len(prep.diff_ops) |-> prep.diff_ops[i][Len(prep.diff_ops[i])] ]

Selection(list) == prep.changed_files = list /\ QueriedPaths = list
NoSelection == prep.changed_files = << >> /\ prep.diff_ops = << >> /\ prep.diff_content = ""

\* C3 as claimed: whenever a focus list is supplied the pre-computed diff and
\* the Files to Review list use exactly the focus list; the artifact-derived
\* files are used only when no focus list is supplied; with neither, no diff
\* is pre-computed.
C3_FocusSuppliedWins ==
    LoopStarted =>
        /\ args.focus_files # None => Selection(args.focus_files[1])
        /\ (args.focus_files = None /\ ArtifactList # << >>) => Selection(ArtifactList)
        /\ (args.focus_files = None /\ ArtifactList = << >>) => NoSelection

\* C3 as amended: a non-empty focus list is used exactly and the artifact
\* files never; the artifact-derived files are used when the focus list is
\* absent or empty; with neither, no diff is pre-computed.
C3_NonEmptyFocusWins ==
    LoopStarted =>
        /\ Truthy(args.focus_files) => Selection(args.focus_files[1])
        /\ (~Truthy(args.focus_files) /\ ArtifactList # << >>) => Selection(ArtifactList)
        /\ (~Truthy(args.focus_files) /\ ArtifactList = << >>) => NoSelection

C3_Witness ==
    /\ LoopStarted
    /\ args.focus_files = Some(<< "a.py", "b.py" >>)
    /\ ArtifactList # << >>
    /\ Range(ArtifactList) \cap { "a.py", "b.py" } = { }
    /\ prep.changed_files = << "a.py", "b.py" >>
    /\ Len(prep.diff_ops) = 2


(***************************************************************************)
(* C4                                                                      *)
(***************************************************************************)
\* the assistant message whose turn the tool result at i belongs to: the
\* nearest assistant message before i
Issuer(i) == CHOOSE j \in Assistants : j < i /\ \A k \in Assistants : k < i => k <= j

\* the tool calls issued before position i that carry the identifier id
CallsBefore(i, id) ==
    { << j, n >> \in Assistants \X (1..MaxToolCalls) :
        /\ j < i
        /\ n <= Len(messages[j].tool_calls)
        /\ messages[j].tool_calls[n].id = id }

\* C4 as claimed: every tool-result message carries an identifier that
\* matches exactly one tool call of the assistant messages before it.
C4_ResultMatchesExactlyOneCall ==
    \A i \in ToolResults : Cardinality(CallsBefore(i, messages[i].tool_call_id)) = 1

\* C4 as amended: every tool-result message follows an assistant message and
\* carries the identifier of the call at its own position in the nearest
\* assistant message before it (so at least one earlier call matches it);
\* the match is the only one when the identifiers the model sent differ.
C4_ResultMatchesItsCall ==
    \A i \in ToolResults :
        /\ \E j \in Assistants : j < i
        /\ i - Issuer(i) <= Len(messages[Issuer(i)].tool_calls)
        /\ messages[i].tool_call_id = messages[Issuer(i)].tool_calls[i - Issuer(i)].id
        /\ CallsBefore(i, messages[i].tool_call_id) # { }
        /\ (\A c, d \in CallsBefore(Len(messages) + 1, messages[i].tool_call_id) : c = d)
             => Cardinality(CallsBefore(i, messages[i].tool_call_id)) = 1

C4_Witness ==
    /\ Cardinality(Assistants) = 2
    /\ Cardinality(ToolResults) = 2
    /\ messages[Len(messages)].role = "tool"
    /\ messages[Len(messages)].tool_call_id # messages[Len(messages) - 2].tool_call_id

(***************************************************************************)
(* C5                                                                      *)
(***************************************************************************)
\* the assistant message at j is followed by one tool result per call, in the
\* order of its calls and tagged with their identifiers, and by nothing else
\* before the next assistant message
Answered(j) ==
    /\ \A n \in 1..Len(messages[j].tool_calls) :
         /\ j + n <= Len(messages)
         /\ messages[j + n].role = "tool"
         /\ messages[j + n].tool_call_id = messages[j].tool_calls[n].id
    /\ j + Len(messages[j].tool_calls) < Len(messages)
         => messages[j + Len(messages[j].tool_calls) + 1].role = "assistant"

\* C5: the k tool requests of a response are answered by exactly k tool
\* results, in order and tagged with their identifiers, whatever their
\* arguments and names, before anything else happens in the session; a chat
\* call is issued only then, and never two at once.
C5_EveryRequestAnswered ==
    /\ inflight <= 1
    /\ pc # "dispatch" => \A j \in Assistants : Answered(j)
    /\ pc = "inflight" => pending = << >>

(***************************************************************************)
(* C6                                                                      *)
(***************************************************************************)
\* C6: the failure of a tool never aborts the session: no dispatch of a tool
\* call ends with an exception escaping the loop.
C6_ToolFailureNeverAborts == ~(pc = "raised" /\ pending # << >>)

(***************************************************************************)
(* C7                                                                      *)
(***************************************************************************)
\* the names _execute_tool has a branch for
HandledTools == REVIEWER_TOOLS \cup { "read_file" }

\* the call the tool result at i answers
CallOf(i) == messages[Issuer(i)].tool_calls[i - Issuer(i)]

UnknownHandled(known) ==
    /\ \A i \in ToolResults :
         CallOf(i).name \notin known => messages[i].content = "Unknown tool: " \o CallOf(i).name
    /\ \A i \in DOMAIN ops : ops[i].src \in known \cup { "prepare" }
    /\ (pc = "raised" /\ pending # << >>) => Head(pending).name \in known

\* C7 as claimed: a tool call whose name is not one of the three declared
\* tools runs no git or file operation, gets the "Unknown tool" text as its
\* result and raises nothing.
C7_UndeclaredIsUnknown == UnknownHandled(REVIEWER_TOOLS)

\* C7 as amended: the same for every name that is neither one of the three
\* declared tools nor the legacy name read_file, which _execute_tool still
\* serves by reading the file.
C7_UnhandledIsUnknown == UnknownHandled(HandledTools)

C7_Witness ==
    \E i \in ToolResults :
        /\ CallOf(i).name = "delete_files"
        /\ messages[i].content = "Unknown tool: delete_files"
        /\ pc = "await"

(***************************************************************************)
(* C8                                                                      *)
(***************************************************************************)
\* C8: a chat-completion call that fails (the call raises, or its response
\* is malformed) ends the session at once with an error text returned: no
\* exception escapes, no further call, no tool dispatch.
C8_TransportFailureReturns ==
    response.kind \in { "error", "nochoices" } =>
        /\ pc = "returned"
        /\ exc = ""
        /\ result = TransportErrorPrefix \o response.content
        /\ inflight = 0 /\ pending = << >>

(***************************************************************************)
(* C9                                                                      *)
(***************************************************************************)
\* C9: a call of review_with_context runs a session of run_agentic_review
\* and never ends in an unhandled fault: once over it has returned a text.
C9_EntryPointReturnsText ==
    caller = "review_with_context" =>
        /\ pc # "raised"
        /\ Finished => (pc = "returned" /\ result # "")


(***************************************************************************)
(* C10                                                                     *)
(***************************************************************************)
\* the section the claim gives a path: the diff under "# Diff for", or the
\* "# No diff available for" marker when the diff is empty or the call errs
ClaimedSection(p) ==
    IF dq.wt.installed /\ dq.wt.out[p] = "changes"
    THEN "# Diff for: " \o p \o "\n" \o DiffText(p)
    ELSE "# No diff available for: " \o p

\* the sections of the amended claim: none for a path whose diff is empty,
\* the "# Error getting diff for" marker when git cannot be run
AmendedSections(p) ==
    IF ~dq.wt.installed
    THEN << "# Error getting diff for " \o p \o ": [Errno 2] No such file or directory: 'git'" >>
    ELSE IF dq.wt.out[p] = "changes" THEN << "# Diff for: " \o p \o "\n" \o DiffText(p) >>
    ELSE IF dq.wt.out[p] = "fail" THEN << "# No diff available for: " \o p >>
    ELSE << >>

\* C10 as claimed: on a non-empty list get_scoped_diff returns exactly one
\* section per path, in order, joined by a blank line, headed "# Diff for"
\* when the diff is non-empty and "# No diff available for" when it is empty
\* or the call errs; on the empty list it returns "" and runs no subprocess.
C10_OneSectionPerPath ==
    dr.done =>
        /\ dq.files = << >> => (dr.val = "" /\ dr.ops = << >>)
        /\ dr.val = Join([ i \in 1..Len(dq.files) |-> ClaimedSection(dq.files[i]) ], "\n\n")

\* C10 as amended: get_scoped_diff runs one diff per path and returns, in
\* input order and joined by a blank line, one section for each path whose
\* diff is non-empty ("# Diff for: <path>" and the diff), whose diff call
\* exits non-zero ("# No diff available for: <path>") or cannot be run
\* ("# Error getting diff for <path>: <error>"); a path whose diff is empty
\* gets no section; on the empty list it returns "" and runs no subprocess.
C10_SectionPerNonEmptyPath ==
    dr.done =>
        /\ dq.files = << >> => (dr.val = "" /\ dr.ops = << >>)
        /\ Len(dr.ops) = Len(dq.files)
        /\ \A i \in 1..Len(dr.ops) : dr.ops[i][Len(dr.ops[i])] = dq.files[i]
        /\ dr.val = Join(Concat([ i \in 1..Len(dq.files) |-> AmendedSections(dq.files[i]) ]),
                         "\n\n")

C10_Witness ==
    /\ dr.done
    /\ dq.wt.installed
    /\ dq.files = << "b.py", "a.py", "b.py" >>
    /\ dq.wt.out["a.py"] = "blank"
    /\ dq.wt.out["b.py"] = "changes"
    /\ Len(dr.diffs) = 2

(***************************************************************************)
(* C11                                                                     *)
(***************************************************************************)
\* a git invocation that asks for the content of a diff, not for names
IsContentDiff(cmd) ==
    /\ Len(cmd) >= 2
    /\ cmd[1] = "git" /\ cmd[2] = "diff"
    /\ "--name-only" \notin Range(cmd)

CarriesExclusions(cmd) ==
    \A i \in DOMAIN EXCLUDE_PATTERNS : (":!" \o EXCLUDE_PATTERNS[i]) \in Range(cmd)

\* C11: every content-diff query a session issues to git, from get_git_diff,
\* from get_scoped_diff (artifact processing, prompt pre-fetch) or from a
\* tool the model requested, carries every pattern of EXCLUDE_PATTERNS as a
\* ":!pattern" negative path filter.
C11_EveryDiffQueryExcludes ==
    \A i \in DOMAIN ops : IsContentDiff(ops[i].cmd) => CarriesExclusions(ops[i].cmd)

(***************************************************************************)
(* C12                                                                     *)
(***************************************************************************)
ArtifactProcessed == dr.done /\ dr.fn = "process_artifact_with_links"

\* C12: process_artifact_with_links returns a pair of texts whatever the
\* state of the artifact, of git and of the linked files, and no exception
\* escapes it; for an artifact that does not exist the pair is the
\* "(Artifact not found: <path>)" note and the empty string.
C12_ArtifactProcessorTotal ==
    ArtifactProcessed =>
        /\ dr.exc = ""
        /\ Len(dr.val) = 2
        /\ FileAt(dq.fs, dq.filepath).state = "missing"
             => dr.val = << "(Artifact not found: " \o dq.filepath \o ")", "" >>

(***************************************************************************)
(* C13                                                                     *)
(***************************************************************************)
LinksParsed == dr.done /\ dr.fn = "parse_file_links"

\* the document parse_file_links was given
ParsedDocument == FileAt(dq.fs, dq.filepath).chars

RECURSIVE Dedup(_)
\* a list without its repeats, the first occurrence of each element kept
Dedup(list) ==
    IF list = << >> THEN << >>
    ELSE LET init == Dedup(SubSeq(list, 1, Len(list) - 1))
             last == list[Len(list)]
         IN IF last \in Range(init) THEN init ELSE Append(init, last)

NoRepeats(list) == \A i, j \in DOMAIN list : list[i] = list[j] => i = j

\* C13: for every document, read_files is the list of the linked paths that
\* are not in diff_files, each path once, in the order of first occurrence;
\* so no path is in both lists and no path occurs twice in read_files.
C13_ReadFilesDeduplicated ==
    LinksParsed =>
        LET diff_files == dr.val[1]
            read_files == dr.val[2]
            InDiff(path) == path \notin Range(diff_files)
        IN /\ diff_files = RefPaths(SelectSeq(ParsedDocument, IsDirective))
           /\ read_files = Dedup(SelectSeq(RefPaths(SelectSeq(ParsedDocument, IsLink)), InDiff))
           /\ Range(diff_files) \cap Range(read_files) = { }
           /\ NoRepeats(read_files)

(***************************************************************************)
(* C14                                                                     *)
(***************************************************************************)
\* the loop keeps running as long as it can take a step
SpecLive == Init /\ [][Next]_vars /\ WF_vars(Next)

\* every session ends, by returning or by raising
SessionEnds == <>Finished

\* the terminal outcomes: Success, IterationExceeded, TransportError, ConfigError
TerminalOutcome ==
    /\ pc = "returned"
    /\ \/ response.kind = "final" /\ result = FinalResult(response.content)
       \/ result = IterationExceeded
       \/ response.kind = "error" /\ result = TransportErrorPrefix \o response.content
       \/ ~env.api_key /\ result = NoKeyError

\* C14: a session of run_agentic_review in which every dispatched tool
\* returned ends, for every cap from 0 up, in one of the terminal outcomes
\* Success, IterationExceeded, TransportError or ConfigError.
C14_EndsInTerminalOutcome ==
    (caller = "direct" /\ Finished /\ pending = << >>) => TerminalOutcome

(***************************************************************************)
(* C15                                                                     *)
(***************************************************************************)
\* the locals of session i, running or parked
Sess(i) == IF sid = i THEN Locals ELSE parked

\* the first user message a session builds from its own arguments
PromptWith(a, loaded, files_to_diff) ==
    UserMessage(a.task_description, loaded.context, ChangedFiles(files_to_diff),
                Prefetch(files_to_diff, a.diff_target, env.wt).val, a.diff_target)

PromptFor(a, loaded) == PromptWith(a, loaded, SelectFiles(a.focus_files, loaded.diff_files))

AlonePrompt(a) ==
    PromptFor(a, LoadArtifacts(default_artifacts \o OrEmpty(a.context_files),
                               a.diff_target, env.wt, env.files))

\* the texts a tool call can return in this environment
ToolTexts(call) ==
    { r.val : r \in { x \in execute_tool(call.name, FuncArgs(call.arguments),
                                          env.wt, env.files) : x.exc = "" } }

\* the transcript of s holds the prompt built from the arguments of s, the
\* tool requests s received and, for each, the result of running that
\* request; nothing else
OwnTranscript(s) ==
    s.messages # << >> =>
        /\ Len(s.messages) >= 2
        /\ s.messages[1] = Message("system", SystemPrompt, << >>, "")
        /\ s.messages[2] = Message("user", AlonePrompt(s.args), << >>, "")
        /\ \A i \in 3..Len(s.messages) :
             \/ /\ s.messages[i].role = "assistant"
                /\ i = 3
                /\ s.response.kind = "tools" => s.messages[i].tool_calls = s.response.tool_calls
             \/ /\ s.messages[i].role = "tool"
                /\ i > 3
                /\ \E k \in DOMAIN s.messages[3].tool_calls :
                     /\ s.messages[3].tool_calls[k].id = s.messages[i].tool_call_id
                     /\ s.messages[i].content \in ToolTexts(s.messages[3].tool_calls[k])

\* what s returned is what its own last response makes it return
OwnResult(s) ==
    s.pc = "returned" =>
        \/ ~env.api_key /\ s.result = NoKeyError
        \/ s.response.kind = "final" /\ s.result = FinalResult(s.response.content)
        \/ s.response.kind = "error" /\ s.result = TransportErrorPrefix \o s.response.content
        \/ s.response.kind = "tools" /\ s.iteration >= env.max_iterations
             /\ s.result = IterationExceeded

\* a step of one worker leaves the locals of the other session and the
\* shared environment as they were; handing over the turn changes neither
\* session
NoCrossWrite ==
    /\ env' = env
    /\ \A i \in { 1, 2 } : (i # sid \/ sid' # sid) => Sess(i)' = Sess(i)

\* C15: two sessions running on two workers, under every interleaving of
\* their steps: each transcript holds only the messages of its own session,
\* no step of one session changes the state of the other or the shared
\* environment, and each session returns what its own responses determine.
C15_SessionsIsolated ==
    /\ [](\A i \in { 1, 2 } : OwnTranscript(Sess(i)) /\ OwnResult(Sess(i)))
    /\ [][NoCrossWrite]_vars

\* session 1 has returned its answer after a tool round while session 2,
\* with another prompt, is in the middle of its own tool round
C15_Witness ==
    /\ Sess(1).pc = "returned" /\ Sess(1).result = "LGTM"
    /\ Sess(2).pc = "dispatch"
    /\ Len(Sess(1).messages) = 2
    /\ Len(Sess(2).messages) = 3
    /\ Sess(1).messages[2] # Sess(2).messages[2]

(***************************************************************************)
(* C16                                                                     *)
(***************************************************************************)
\* run_agentic_review was entered without an API key and went past its check
PastKeyCheck == caller = "direct" /\ ~env.api_key /\ pc \notin { "call", "entered" }

\* C16: without an API key run_agentic_review returns the fixed error text
\* and raises nothing, having opened no artifact, run no git command and
\* made no chat-completion call.
C16_MissingKeyReturnsText ==
    PastKeyCheck =>
        /\ pc = "returned"
        /\ result = NoKeyError
        /\ exc = ""
        /\ ops = << >>
        /\ chatCalls = 0 /\ inflight = 0
        /\ messages = << >>

C16_Witness ==
    /\ PastKeyCheck
    /\ pc = "returned"
    /\ result = NoKeyError
    /\ FileAt(env.files, "task.md").state = "ok"
    /\ env.wt.installed
    /\ env.max_iterations > 0

(***************************************************************************)
(* C17                                                                     *)
(***************************************************************************)
FilesRead == dr.done /\ dr.fn = "read_context_files"

ReadMarker == "\n\n... [TRUNCATED] ..."

\* the first ReadCeiling characters of a file longer than the ceiling
FirstCeiling == Text([ i \in 1..ReadCeiling |-> IF i = 1 THEN "A" ELSE "x" ])

\* what the claim has read_context_files emit for a readable file of n
\* characters, after the header
ClaimedBody(n) ==
    IF n > ReadCeiling THEN FirstCeiling \o ReadMarker ELSE Text(Content(n))

ClaimedEntry(p, file) ==
    IF file.state = "ok" THEN "\n\n--- FILE: " \o p \o " ---\n" \o ClaimedBody(file.size)
    ELSE IF file.state = "missing" THEN "\n\n(Note: Context file '" \o p \o "' not found)\n"
    ELSE "\n\n(Error reading '" \o p \o "': [Errno 13] Permission denied: '" \o p \o "')\n"

\* C17: for a file longer than the read-files ceiling of 50,000 characters
\* read_context_files emits, after the file's header, exactly the first
\* 50,000 characters followed by the truncation marker and nothing of the
\* rest; a file of at most 50,000 characters is emitted whole, without
\* marker; and the ceiling is larger than the ceiling of 10,000 that
\* process_artifact_with_links applies to linked files.
C17_ReadFilesTruncation ==
    /\ ReadCeiling > LinkCeiling
    /\ FilesRead =>
         dr.val = Join([ i \in 1..Len(dq.filepaths) |->
                           ClaimedEntry(dq.filepaths[i], dq.sizes[dq.filepaths[i]]) ], "")

\* a file of 60,000 characters was read: the result is the header, 50,000
\* characters and the marker
C17_Witness ==
    /\ FilesRead
    /\ dq.filepaths = << "a.py" >>
    /\ dq.sizes["a.py"] = Sized(60000)
    /\ Len(dr.val) = Len("\n\n--- FILE: a.py ---\n") + ReadCeiling + Len(ReadMarker)

(***************************************************************************)
(* C18                                                                     *)
(***************************************************************************)
\* no focus files and no render_diffs directive in any artifact
NoFileSelection == ~Truthy(args.focus_files) /\ ArtifactList = << >>

InitialUserMessage == messages[2].content

ReviewHeading == "Please review the following:\n\n"
ReviewClosing ==
    "\n\n---\nProvide a thorough code review. Use your tools if you need more information."

TaskSection ==
    IF args.task_description # "" THEN << "## Task Description\n" \o args.task_description >>
    ELSE << >>

ArtifactSection ==
    IF prep.artifact_context # "" THEN << "## Project Artifacts\n" \o prep.artifact_context >>
    ELSE << >>

FilesSection == << "## Files to Review\n" \o Join(prep.changed_files, "\n") >>

DiffSection ==
    IF prep.diff_content # ""
    THEN << "## Git Diff (" \o args.diff_target \o ")\n" \o Fence \o "diff\n"
              \o prep.diff_content \o "\n" \o Fence >>
    ELSE << >>

\* with a selection: the file list and the scoped diff computed for exactly
\* the selected files
SelectionPrompt ==
    /\ prep.changed_files # << >>
    /\ QueriedPaths = prep.changed_files
    /\ InitialUserMessage =
         ReviewHeading
           \o Join(TaskSection \o ArtifactSection \o FilesSection \o DiffSection, "\n\n")
           \o ReviewClosing

\* C18 as claimed: when no file selection is made the initial user message
\* is the instruction to discover the changes with list_changed_files and
\* get_uncommitted_changes, whether or not a task description or artifact
\* text is present; with a selection it holds the file list and the scoped
\* diff computed for exactly that selection.
C18_NoSelectionAlwaysDiscovers ==
    LoopStarted =>
        /\ NoFileSelection => InitialUserMessage = DiscoverMessage
        /\ ~NoFileSelection => SelectionPrompt

\* C18 as amended: when no file selection is made, the initial user message
\* is the discover instruction only if there is neither a task description
\* nor artifact text; otherwise it is the heading, the task and artifact
\* sections and the closing line, without file list and without diff.  With a
\* selection it holds the file list and the scoped diff computed for exactly
\* that selection.
C18_DiscoverOnlyWhenNothingToShow ==
    LoopStarted =>
        /\ (NoFileSelection /\ args.task_description = "" /\ prep.artifact_context = "")
             => InitialUserMessage = DiscoverMessage
        /\ (NoFileSelection /\ (args.task_description # "" \/ prep.artifact_context # ""))
             => /\ InitialUserMessage =
                     ReviewHeading \o Join(TaskSection \o ArtifactSection, "\n\n") \o ReviewClosing
                /\ InitialUserMessage # DiscoverMessage
                /\ prep.changed_files = << >> /\ prep.diff_ops = << >>
        /\ ~NoFileSelection => SelectionPrompt

\* no selection, a task description and no readable artifact: the message
\* is the task section between heading and closing line
C18_Witness ==
    /\ LoopStarted
    /\ NoFileSelection
    /\ args.task_description = "Fix the parser"
    /\ prep.artifact_context = ""
    /\ InitialUserMessage =
         ReviewHeading \o "## Task Description\nFix the parser" \o ReviewClosing

(***************************************************************************)
(* C19                                                                     *)
(***************************************************************************)
\* C19: when the selection comes from the artifacts, it is the union of
\* their render_diffs paths: every such path occurs in it, and a path named
\* in several artifacts or several times in one occurs once, in the Files to
\* Review list and in the git queries of the pre-computed diff alike.
C19_ArtifactSelectionIsUnion ==
    (LoopStarted /\ ~Truthy(args.focus_files)) =>
        /\ Range(prep.changed_files) = Range(ArtifactList)
        /\ NoRepeats(prep.changed_files)
        /\ NoRepeats(QueriedPaths)

(***************************************************************************)
(* C20                                                                     *)
(***************************************************************************)
\* the forms a section of a scoped diff takes for path p
SectionForms(p) ==
    { "# Diff for: " \o p \o "\n" \o DiffText(p),
      "# No diff available for: " \o p,
      "# Error getting diff for " \o p \o ": [Errno 2] No such file or directory: 'git'" }

\* the sections the aggregate scoped diff holds for path p
AggregateSections(p) == { s \in Range(dr.diffs) : s \in SectionForms(p) }

\* the piece put in place of the directive at position i agrees with the
\* aggregate
InlineAgrees(i, p) ==
    IF AggregateSections(p) = { }
    THEN dr.parts[i] = "(No changes in " \o p \o ")"
    ELSE /\ Cardinality(AggregateSections(p)) = 1
         /\ \A s \in AggregateSections(p) :
              dr.parts[i] = Fence \o "diff\n" \o s \o "\n" \o Fence

\* C20: in process_artifact_with_links, with git answering each query the
\* same way throughout the call, the fenced block put in place of a
\* render_diffs directive holds exactly the section the aggregate scoped
\* diff holds for that path, and the directive becomes the "(No changes in
\* <path>)" note exactly when the aggregate holds no section for the path.
C20_InlineMatchesAggregate ==
    (ArtifactProcessed /\ dr.exc = "" /\ FileAt(dq.fs, dq.filepath).state = "ok") =>
        /\ Len(dr.parts) = Len(ParsedDocument)
        /\ dr.val[2] = Join(dr.diffs, "\n\n")
        /\ parse_file_links(ParsedDocument)[2] = << >> => dr.val[1] = Join(dr.parts, "\n")
        /\ \A i \in DOMAIN ParsedDocument :
             IsDirective(ParsedDocument[i]) => InlineAgrees(i, RefPath(ParsedDocument[i]))

\* two directives, one for a changed file and one for an unchanged file:
\* a fenced block and a note inline, one section in the aggregate
C20_Witness ==
    /\ ArtifactProcessed
    /\ ParsedDocument = << Directive("a.py"), Directive("b.py") >>
    /\ dq.wt.installed
    /\ dq.wt.out["/a.py"] = "changes" /\ dq.wt.out["/b.py"] = "blank"
    /\ dr.diffs = << "# Diff for: /a.py\n" \o DiffText("/a.py") >>
    /\ dr.parts[1] = Fence \o "diff\n# Diff for: /a.py\n" \o DiffText("/a.py") \o "\n" \o Fence
    /\ dr.parts[2] = "(No changes in /b.py)"

(***************************************************************************)
(* C21                                                                     *)
(***************************************************************************)
\* read_files of the processed document
ResolvedLinks == parse_file_links(ParsedDocument)[2]

IsReadable(path) == FileAt(dq.fs, path).state = "ok"

\* the text appended for a readable linked file shorter than the ceiling
LinkedEntry(path) ==
    "\n\n--- LINKED FILE: " \o path \o " ---\n" \o Text(FileAt(dq.fs, path).chars)

FirstOf(list, n) == SubSeq(list, 1, Min(Len(list), n))

\* the document as rendered, followed by the entries of the files in list
RenderedWith(list) ==
    Join(dr.parts, "\n") \o Join([ i \in 1..Len(list) |-> LinkedEntry(list[i]) ], "")

\* C21 as claimed: the rendered text is followed by the contents of the
\* first 5 readable linked files in read_files order; unreadable ones are
\* skipped without aborting, so 5 files are appended whenever read_files
\* holds 5 readable ones.
C21_FiveReadableAppended ==
    (ArtifactProcessed /\ FileAt(dq.fs, dq.filepath).state = "ok") =>
        /\ dr.exc = ""
        /\ dr.val[1] = RenderedWith(FirstOf(SelectSeq(ResolvedLinks, IsReadable),
                                            LinkedFileLimit))

\* C21 as amended: only the first 5 entries of read_files are tried; the
\* readable ones among them are appended in read_files order and the
\* unreadable ones are skipped without aborting and without a later entry
\* taking their place, so at most 5 files are appended.
C21_FirstFiveTried ==
    (ArtifactProcessed /\ FileAt(dq.fs, dq.filepath).state = "ok") =>
        /\ dr.exc = ""
        /\ dr.val[1] = RenderedWith(SelectSeq(FirstOf(ResolvedLinks, LinkedFileLimit),
                                              IsReadable))
        /\ \A i \in DOMAIN dr.ops :
             dr.ops[i][1] = "open" /\ i > 1 =>
                dr.ops[i][2] \in Range(FirstOf(ResolvedLinks, LinkedFileLimit))

\* seven links, the first unreadable and the other six readable: the files
\* 2 to 5 are appended, four in all
C21_Witness ==
    /\ ArtifactProcessed
    /\ Len(ResolvedLinks) = 7
    /\ ResolvedLinks[1] = "/f1.py"
    /\ ~IsReadable("/f1.py")
    /\ \A k \in 2..7 : IsReadable(ResolvedLinks[k])
    /\ dr.val[1] = RenderedWith(<< "/f2.py", "/f3.py", "/f4.py", "/f5.py" >>)

(***************************************************************************)
(* C22                                                                     *)
(***************************************************************************)
\* a session that ended with the IterationExceeded text ran the tools of
\* its last round: the transcript ends with the results of the last
\* assistant message, and no chat-completion call was made after them
ExceededAfterFullDispatch ==
    (pc = "returned" /\ result = IterationExceeded /\ env.max_iterations > 0) =>
        /\ Assistants # { }
        /\ \A j \in Assistants : Answered(j)
        /\ \E j \in Assistants : j + Len(messages[j].tool_calls) = Len(messages)
        /\ messages[Len(messages)].role = "tool"
        /\ chatCalls = Cardinality(Assistants) /\ inflight = 0

\* C22: every response that carries tool requests is followed by the
\* dispatch of all its requests, in the round that reaches the cap too: in
\* a finished session the dispatch rounds completed are as many as the
\* chat-completion calls answered with tool requests, and a session that
\* ended with the IterationExceeded text has run the tools of its last
\* round and appended their results, which no later call carries.
C22_EveryToolResponseDispatched ==
    /\ Finished => /\ iteration = Cardinality(Assistants)
                   /\ \A j \in Assistants : Answered(j)
    /\ ExceededAfterFullDispatch

====
